---- MODULE Spec2Model ----
(***************************************************************************)
(* libschema, lsmysql driver (src/lsmysql/mysql.go): the migration         *)
(* executor DoOneMigration with its status store, and the advisory-lock    *)
(* manager LockMigrationsTable / UnlockMigrationsTable.                    *)
(*                                                                         *)
(* Strings are sequences of one-character strings, so that the identifier  *)
(* regular expression and strings.Split are computed, not assumed.         *)
(* An error value is the sequence of the parts of its message, outermost   *)
(* wrapper first; the nil error is the empty sequence.                     *)
(***************************************************************************)
EXTENDS Integers, Sequences, FiniteSets, TLC

\* ------------------------------------------------------------------ bounds
\* DoOneMigration / LoadStatus / CreateSchemaTableIfNotExists calls in a run
MaxCalls == 2
\* LockMigrationsTable calls started in a run of the lock manager
MaxLockCalls == 4
\* length of the tracking-table names the validator is tried on
MaxNameLen == 5

\* ------------------------------------------------------------ identifiers
Letter ==
    {"a","b","c","d","e","f","g","h","i","j","k","l","m",
     "n","o","p","q","r","s","t","u","v","w","x","y","z",
     "A","B","C","D","E","F","G","H","I","J","K","L","M",
     "N","O","P","Q","R","S","T","U","V","W","X","Y","Z"}

Digit == {"0","1","2","3","4","5","6","7","8","9"}

\* a pattern that lets the first character be a digit or an underscore too
simpleIdentifierAnyStart(s) ==
    /\ Len(s) >= 1
    /\ \A i \in 1..Len(s) : s[i] \in Letter \cup Digit \cup {"_"}

\* regexp \A[A-Za-z][A-Za-z0-9_]*\z
simpleIdentifierRE(s) ==
    /\ Len(s) >= 1
    /\ s[1] \in Letter
    /\ \A i \in 2..Len(s) : s[i] \in Letter \cup Digit \cup {"_"}

\* strings.Split(s, "."): the pieces between the dots; one piece, the whole
\* string, when there is no dot (also for the empty string)
RECURSIVE Split(_)
Split(s) ==
    IF \A i \in 1..Len(s) : s[i] # "."
    THEN <<s>>
    ELSE LET k == CHOOSE i \in 1..Len(s) :
                     s[i] = "." /\ \A j \in 1..(i-1) : s[j] # "."
         IN  <<SubSeq(s, 1, k-1)>> \o Split(SubSeq(s, k+1, Len(s)))

Nil == <<>>

\* errors.Wrap / errors.Wrapf: nil stays nil, otherwise the message is put
\* in front of the cause
Wrap(e, msg) == IF e = Nil THEN Nil ELSE <<msg>> \o e

\* trackingSchemaTable: (schema, table, err) for a tracking-table name
trackingSchemaTable(tableName) ==
    LET s == Split(tableName) IN
    IF Len(s) = 2
    THEN IF ~simpleIdentifierRE(s[1])
         THEN [schema |-> <<>>, table |-> <<>>, err |-> <<"schema name must be a simple identifier">>]
         ELSE IF ~simpleIdentifierRE(s[2])
         THEN [schema |-> <<>>, table |-> <<>>, err |-> <<"table name must be a simple identifier">>]
         ELSE [schema |-> s[1], table |-> s[1] \o <<".">> \o s[2], err |-> Nil]
    ELSE IF Len(s) = 1
    THEN IF ~simpleIdentifierRE(tableName)
         THEN [schema |-> <<>>, table |-> <<>>, err |-> <<"table name must be a simple identifier">>]
         ELSE [schema |-> <<>>, table |-> tableName, err |-> Nil]
    ELSE [schema |-> <<>>, table |-> <<>>, err |-> <<"tracking table is not valid">>]

\* trackingTable: the table reference, the validation error dropped
trackingTable(tableName) == trackingSchemaTable(tableName).table

\* ------------------------------------------------------------------- state
VARIABLES
    SchemaOverride,   \* d.Options.SchemaOverride
    TrackingTable,    \* d.Options.TrackingTable
    table,            \* committed rows of the tracking table
    effects,          \* migrations whose data effects are committed
    txState,          \* transactions of the current call: 1 = tx, 2 = ntx
    txRows,           \* rows written in a transaction, not yet committed
    txEffect,         \* a transaction holds uncommitted effects of the migration
    txAuto,           \* a DDL statement ended the transaction on the server:
                      \* what follows on its connection commits at once
    ddlRun,           \* migrations that ran an auto-committing DDL statement
    pc,               \* position of the running operation
    op,               \* the operation that runs or ran last
    mig,              \* m: the migration DoOneMigration was called with
    class,            \* CheckScript(script) of the script generated in this call
    tx,               \* the variable tx of DoOneMigration
    err,              \* the named result err / the error the operation returned
    ops,              \* database calls and callbacks of the operation, in order
    status,           \* in-memory MigrationStatus of the known migrations
    unknowns,         \* the list LoadStatus returned
    before,           \* status and table when DoOneMigration was called
    created,          \* objects CreateSchemaTableIfNotExists created
    calls,            \* operations started
    \* the lock manager and its callers
    lockTx,           \* p.lockTx of each MySQL instance: a session, 0 for nil
    lockStr,          \* p.lockStr
    lock,             \* p.lock: the thread inside Lock/UnlockMigrationsTable
    sess,             \* database sessions (pooled connections)
    lockDepth,        \* advisory locks: times a session holds a lock name
    tpc,              \* position of each calling thread
    tcall,            \* the call a thread is in, or made last
    ttx,              \* the variable tx of a thread's LockMigrationsTable
    tret,             \* the error a thread's last call returned
    tops,             \* database calls of a thread's current or last call
    plast,            \* the call made last on each MySQL instance
    lockCalls         \* Lock/UnlockMigrationsTable calls started

execVars == <<SchemaOverride, TrackingTable, table, effects, txState, txRows,
              txEffect, txAuto, ddlRun, pc, op, mig, class, tx, err, ops, status, unknowns,
              before, created, calls>>

lockVars == <<lockTx, lockStr, lock, sess, lockDepth, tpc, tcall, ttx, tret,
              tops, plast, lockCalls>>

vars == <<execVars, lockVars>>

\* ------------------------------------------------------------- the fixture
Library == "lib"

\* m1: Script, m2: Script declared with a skip-if condition, m3: Computed
Migrations == {"m1", "m2", "m3"}
IsScript(m) == m \in {"m1", "m2"}
HasSkipIf(m) == m = "m2"

\* results of CheckScript
ScriptClass == {"Safe", "DataAndDDL", "NonIdempotentDDL"}

Row(m, done, e) == [library |-> Library, migration |-> m, done |-> done, error |-> e]

\* rows another run may have left: a finished migration that is no longer
\* known, a failed migration m2 of another library, and a failed attempt of m1
InitialRows ==
    {Row("old", TRUE, Nil),
     [Row("m2", FALSE, <<"earlier failure">>) EXCEPT !.library = "other"],
     Row("m1", FALSE, <<"earlier failure">>)}

\* the tracking table a run starts with: empty, one of the rows, or all
InitialTables == {t \in SUBSET InitialRows : Cardinality(t) # 2}

SchemaOverrides == {<<>>, <<"d","b">>, <<"d",";">>}
TrackingTables == {<<"t">>, <<"s",".","t">>, <<"a",".","b",".","c">>}

TxIds == {1, 2}
NoTx == [t \in TxIds |-> "none"]

\* ------------------------------------------------------ database semantics
\* REPLACE INTO on PRIMARY KEY (library, migration): the row with the same
\* key is deleted, then the new row is inserted
Replace(tbl, row) ==
    {r \in tbl : ~(r.library = row.library /\ r.migration = row.migration)} \cup {row}

RECURSIVE ApplyRows(_, _)
ApplyRows(tbl, rows) ==
    IF rows = <<>> THEN tbl
    ELSE ApplyRows(Replace(tbl, Head(rows)), Tail(rows))

\* tx.Rollback(): ends an open transaction, ErrTxDone (ignored) otherwise
RollbackTx(st, t) == [st EXCEPT ![t] = IF @ = "open" THEN "rolledback" ELSE @]

\* --------------------------------------------------------- DoOneMigration
\* a skip-if condition taken to excuse every unsafe script
PolicyErrorSkipIfExcusesAll(cls, skipIf) ==
    IF cls = "Safe" \/ skipIf THEN Nil
    ELSE <<"Unconditional migration has non-idempotent DDL">>

\* the switch on CheckScript(script), lines 181-189
PolicyError(cls, skipIf) ==
    CASE cls = "Safe" -> Nil
      [] cls = "DataAndDDL" -> <<"Migration combines DDL and data manipulation">>
      [] cls = "NonIdempotentDDL" ->
            IF ~skipIf THEN <<"Unconditional migration has non-idempotent DDL">>
            ELSE Nil

\* a deferred function that commits whatever the error
DeferredTxAlwaysCommit(e, t, st, commitOk) ==
    IF commitOk
    THEN [err |-> e, st |-> [st EXCEPT ![t] = IF @ = "open" THEN "committed" ELSE @],
          call |-> "Commit"]
    ELSE [err |-> IF e = Nil THEN Wrap(<<"commit failed">>, "Commit migration") ELSE e,
          st |-> RollbackTx(st, t), call |-> "Commit"]

\* the deferred commit/rollback, lines 162-168, on the transaction tx names
\* when the function returns with error e
DeferredTx(e, t, st, commitOk) ==
    IF e # Nil
    THEN [err |-> e, st |-> RollbackTx(st, t), call |-> "Rollback"]
    ELSE IF commitOk
    THEN [err |-> Nil, st |-> [st EXCEPT ![t] = "committed"], call |-> "Commit"]
    ELSE [err |-> Wrap(<<"commit failed">>, "Commit migration"),
          st |-> [st EXCEPT ![t] = "rolledback"], call |-> "Commit"]

\* a status update that marks the migration done whatever the call returns
DeferredStatusAlways(e, m, sts) == [sts EXCEPT ![m] = "done"]

\* the deferred status update, lines 151-157
DeferredStatus(e, m, sts) == IF e = Nil THEN [sts EXCEPT ![m] = "done"] ELSE sts

\* return: the deferred functions run, last registered first
Return(e, t, st, log, commitOk) ==
    LET d == DeferredTx(e, t, st, commitOk) IN
    /\ err' = d.err
    /\ txState' = d.st
    /\ ops' = Append(log, d.call)
    /\ table' = IF d.st[t] = "committed" THEN ApplyRows(table, txRows[t]) ELSE table
    /\ effects' = IF d.st[t] = "committed" /\ txEffect[t]
                  THEN effects \cup {mig} ELSE effects
    /\ status' = DeferredStatus(d.err, mig, status)
    /\ pc' = "done"

Idle == pc \in {"idle", "done"}

\* lines 149-161: the call and d.DB().BeginTx
BeginTx(m, ok) ==
    /\ Idle
    /\ calls < MaxCalls
    /\ calls' = calls + 1
    /\ op' = "DoOneMigration"
    /\ mig' = m
    /\ class' = "none"
    /\ txRows' = [t \in TxIds |-> <<>>]
    /\ txEffect' = [t \in TxIds |-> FALSE]
    /\ IF ok
       THEN /\ tx' = 1
            /\ txState' = [NoTx EXCEPT ![1] = "open"]
            /\ err' = Nil
            /\ ops' = <<"BeginTx">>
            /\ pc' = "begun"
            /\ UNCHANGED <<table, effects, status>>
       ELSE \* no transaction, so the deferred commit/rollback is not registered
            /\ tx' = 0
            /\ txState' = NoTx
            /\ err' = Wrap(<<"begin failed">>, "Begin Tx for migration")
            /\ ops' = <<"BeginTx">>
            /\ status' = DeferredStatus(err', m, status)
            /\ pc' = "done"
            /\ UNCHANGED <<table, effects>>
    /\ before' = [status |-> status, table |-> table]
    /\ txAuto' = [t \in TxIds |-> FALSE]
    /\ UNCHANGED <<SchemaOverride, TrackingTable, unknowns, created, ddlRun, lockVars>>

\* a namespace switch that issues USE without validating the override
SwitchNamespaceUnchecked(ok) ==
    /\ pc = "begun"
    /\ IF SchemaOverride = <<>>
       THEN /\ pc' = "ready"
            /\ UNCHANGED <<err, txState, ops, table, effects, status>>
       ELSE IF ok
       THEN /\ pc' = "ready"
            /\ ops' = Append(ops, "USE")
            /\ UNCHANGED <<err, txState, table, effects, status>>
       ELSE Return(Wrap(<<"use failed">>, "Set search path"),
                   tx, txState, Append(ops, "USE"), TRUE)
    /\ UNCHANGED <<SchemaOverride, TrackingTable, txRows, txEffect, op, mig,
                   class, tx, unknowns, before, created, calls, txAuto, ddlRun, lockVars>>

\* lines 169-177: the namespace override
SwitchNamespace(ok) ==
    /\ pc = "begun"
    /\ IF SchemaOverride = <<>>
       THEN /\ pc' = "ready"
            /\ UNCHANGED <<err, txState, ops, table, effects, status>>
       ELSE IF ~simpleIdentifierRE(SchemaOverride)
       THEN Return(<<"Options.SchemaOverride must be a simple identifier">>,
                   tx, txState, ops, TRUE)
       ELSE IF ok
       THEN /\ pc' = "ready"
            /\ ops' = Append(ops, "USE")
            /\ UNCHANGED <<err, txState, table, effects, status>>
       ELSE Return(Wrap(<<"use failed">>, "Set search path"),
                   tx, txState, Append(ops, "USE"), TRUE)
    /\ UNCHANGED <<SchemaOverride, TrackingTable, txRows, txEffect, op, mig,
                   class, tx, unknowns, before, created, calls, txAuto, ddlRun, lockVars>>

\* tx.Exec of the migration's statements, lines 191 and 195. ddl: an
\* auto-committing DDL statement ran; it committed what the transaction had
\* done and itself, and left the connection outside any transaction
ExecEffects(t, ddl) ==
    /\ txEffect' = [txEffect EXCEPT ![t] = ~ddl]
    /\ txAuto' = [txAuto EXCEPT ![t] = ddl]
    /\ effects' = IF ddl THEN effects \cup {mig} ELSE effects
    /\ ddlRun' = IF ddl THEN ddlRun \cup {mig} ELSE ddlRun

\* lines 179-193: a Script migration
RunScript(cls, ok, ddl) ==
    /\ pc = "ready"
    /\ IsScript(mig)
    /\ cls = "NonIdempotentDDL" /\ ok => ddl
    /\ class' = cls
    /\ LET perr == PolicyError(cls, HasSkipIf(mig)) IN
       IF perr = Nil
       THEN /\ ops' = ops \o <<"script", "Exec">>
            /\ ExecEffects(tx, ddl)
            /\ err' = Wrap(IF ok THEN Nil ELSE <<"exec failed">>, "script")
       ELSE /\ ddl = FALSE
            /\ ops' = Append(ops, "script")
            /\ UNCHANGED <<txEffect, txAuto, effects, ddlRun>>
            /\ err' = Wrap(perr, "script")
    /\ pc' = "ran"
    /\ UNCHANGED <<SchemaOverride, TrackingTable, table, txState, txRows,
                   op, mig, tx, status, unknowns, before, created, calls, lockVars>>

\* lines 194-196: a Computed migration
RunComputed(ok, ddl) ==
    /\ pc = "ready"
    /\ ~IsScript(mig)
    /\ ops' = Append(ops, "computed")
    /\ ExecEffects(tx, ddl)
    /\ err' = IF ok THEN Nil ELSE <<"action failed">>
    /\ pc' = "ran"
    /\ UNCHANGED <<SchemaOverride, TrackingTable, table, txState, txRows,
                   op, mig, class, tx, status, unknowns, before, created, calls,
                   lockVars>>

\* a recovery that opens the fallback transaction beside the first one
RecoverWithoutRollback(ok) ==
    /\ pc = "ran"
    /\ err # Nil
    /\ LET e == Wrap(err, "Problem with migration")
           log == Append(ops, "BeginTx")
       IN  IF ok
           THEN /\ err' = e
                /\ txState' = [txState EXCEPT ![2] = "open"]
                /\ tx' = 2
                /\ ops' = log
                /\ pc' = "recovered"
                /\ UNCHANGED <<table, effects, status>>
           ELSE /\ tx' = tx
                /\ Return(<<"Tx for saving status also failed with", "begin failed">> \o e,
                          tx, txState, log, TRUE)
    /\ UNCHANGED <<SchemaOverride, TrackingTable, txRows, txEffect, op, mig,
                   class, unknowns, before, created, calls, txAuto, ddlRun, lockVars>>

\* lines 197-205: the migration failed; roll back, open the fallback
\* transaction
Recover(ok) ==
    /\ pc = "ran"
    /\ err # Nil
    /\ LET e == Wrap(err, "Problem with migration")
           st == RollbackTx(txState, tx)
           log == ops \o <<"Rollback", "BeginTx">>
       IN  IF ok
           THEN /\ err' = e
                /\ txState' = [st EXCEPT ![2] = "open"]
                /\ tx' = 2
                /\ ops' = log
                /\ pc' = "recovered"
                /\ UNCHANGED <<table, effects, status>>
           ELSE /\ tx' = tx
                /\ Return(<<"Tx for saving status also failed with", "begin failed">> \o e,
                          tx, st, log, TRUE)
    /\ UNCHANGED <<SchemaOverride, TrackingTable, txRows, txEffect, op, mig,
                   class, unknowns, before, created, calls, txAuto, ddlRun, lockVars>>

\* saveStatus, lines 293-311: one REPLACE INTO in transaction t
saveStatus(t, m, done, migrationError, ok) ==
    LET estr == migrationError
        q == trackingTable(TrackingTable)
    IN  IF q # <<>> /\ ok
        THEN [rows |-> Append(txRows[t], Row(m, done, estr)), err |-> Nil]
        ELSE [rows |-> txRows[t], err |-> Wrap(<<"replace failed">>, "Save status")]

\* a statement that commits at once whatever the connection's state
TxWriteAtOnce(tbl, auto, rows) == ApplyRows(tbl, rows)

\* tx.Exec, line 306: the committed table after rows were written on tx's
\* connection; they are committed at once only outside a transaction
TxWrite(tbl, auto, rows) == IF auto THEN ApplyRows(tbl, rows) ELSE tbl

\* a status save that records successes only
SaveStatusOfSuccessOnly(ok) ==
    /\ \/ pc = "ran" /\ err = Nil
       \/ pc = "recovered"
    /\ IF err # Nil
       THEN UNCHANGED <<txRows, err, ops, table>>
       ELSE LET r == saveStatus(tx, mig, TRUE, err, ok) IN
            /\ txRows' = [txRows EXCEPT ![tx] = r.rows]
            /\ table' = TxWrite(table, txAuto[tx], r.rows)
            /\ err' = r.err
            /\ ops' = Append(ops, "REPLACE")
    /\ pc' = "saved"
    /\ UNCHANGED <<SchemaOverride, TrackingTable, effects, txState, txEffect,
                   op, mig, class, tx, status, unknowns, before, created, calls,
                   txAuto, ddlRun, lockVars>>

\* lines 206-213
SaveStatus(ok) ==
    /\ \/ pc = "ran" /\ err = Nil
       \/ pc = "recovered"
    /\ LET r == saveStatus(tx, mig, err = Nil, err, ok) IN
       /\ txRows' = [txRows EXCEPT ![tx] = r.rows]
       /\ table' = TxWrite(table, txAuto[tx], r.rows)
       /\ err' = IF r.err = Nil THEN err
                 ELSE IF err = Nil THEN r.err
                 ELSE <<"Save status also failed">> \o r.err \o err
    /\ ops' = Append(ops, "REPLACE")
    /\ pc' = "saved"
    /\ UNCHANGED <<SchemaOverride, TrackingTable, effects, txState, txEffect,
                   op, mig, class, tx, status, unknowns, before, created, calls,
                   txAuto, ddlRun, lockVars>>

\* line 214 and the deferred functions
Finish(commitOk) ==
    /\ pc = "saved"
    /\ Return(err, tx, txState, ops, commitOk)
    /\ UNCHANGED <<SchemaOverride, TrackingTable, txRows, txEffect, op, mig,
                   class, tx, unknowns, before, created, calls, txAuto, ddlRun, lockVars>>

\* the process dies inside DoOneMigration: its memory is gone, the server
\* rolls back what is open, what is committed stays
Crash ==
    /\ pc \in {"begun", "ready", "ran", "recovered", "saved"}
    /\ pc' = "crashed"
    /\ txState' = [t \in TxIds |-> IF txState[t] = "open" THEN "rolledback" ELSE txState[t]]
    /\ txRows' = [t \in TxIds |-> <<>>]
    /\ txEffect' = [t \in TxIds |-> FALSE]
    /\ status' = [m \in Migrations |-> "unset"]
    /\ err' = Nil
    /\ ops' = <<>>
    /\ class' = "none"
    /\ unknowns' = <<>>
    /\ UNCHANGED <<SchemaOverride, TrackingTable, table, effects, op, mig, tx, before,
                   created, calls, txAuto, ddlRun, lockVars>>

DoOneMigration ==
    \/ \E m \in Migrations, ok \in BOOLEAN : BeginTx(m, ok)
    \/ \E ok \in BOOLEAN : SwitchNamespace(ok)
    \/ \E cls \in ScriptClass, ok, ddl \in BOOLEAN : RunScript(cls, ok, ddl)
    \/ \E ok, ddl \in BOOLEAN : RunComputed(ok, ddl)
    \/ \E ok \in BOOLEAN : Recover(ok)
    \/ \E ok \in BOOLEAN : SaveStatus(ok)
    \/ \E ok \in BOOLEAN : Finish(ok)
    \/ Crash

\* ------------------------------------------ CreateSchemaTableIfNotExists
\* lines 221-247; the two statements are CREATE ... IF NOT EXISTS
CreateSchemaTableIfNotExists(schemaOk, tableOk) ==
    /\ Idle
    /\ calls < MaxCalls
    /\ calls' = calls + 1
    /\ op' = "CreateSchemaTableIfNotExists"
    /\ pc' = "done"
    /\ LET r == trackingSchemaTable(TrackingTable) IN
       IF r.err # Nil
       THEN /\ err' = r.err
            /\ ops' = <<>>
            /\ created' = created
       ELSE IF r.schema # <<>> /\ ~schemaOk
       THEN /\ err' = Wrap(<<"create failed">>, "Could not create libschema schema")
            /\ ops' = <<"CREATE SCHEMA">>
            /\ created' = created
       ELSE LET log == IF r.schema # <<>> THEN <<"CREATE SCHEMA">> ELSE <<>>
                made == IF r.schema # <<>> THEN created \cup {r.schema} ELSE created
            IN  /\ ops' = Append(log, "CREATE TABLE")
                /\ IF tableOk
                   THEN /\ err' = Nil
                        /\ created' = made \cup {r.table}
                   ELSE /\ err' = Wrap(<<"create failed">>,
                                       "Could not create libschema migrations table")
                        /\ created' = made
    /\ UNCHANGED <<SchemaOverride, TrackingTable, table, effects, txState, txRows,
                   txEffect, mig, class, tx, status, unknowns, before, txAuto, ddlRun,
                   lockVars>>

\* -------------------------------------------------------------- LoadStatus
\* a lookup by migration name alone
LookupByName(row) == row.migration \in Migrations

\* d.Lookup(name)
Lookup(row) == row.library = Library /\ row.migration \in Migrations

\* the loop of lines 388-402 over the rows the query returned
RECURSIVE LoadRows(_, _, _)
LoadRows(rows, sts, unk) ==
    IF rows = <<>> THEN [status |-> sts, unknowns |-> unk]
    ELSE LET row == Head(rows) IN
         IF Lookup(row)
         THEN LoadRows(Tail(rows),
                       [sts EXCEPT ![row.migration] = IF row.done THEN "done" ELSE "notdone"],
                       unk)
         ELSE IF row.done
         THEN LoadRows(Tail(rows), sts,
                       Append(unk, [Library |-> row.library, Name |-> row.migration]))
         ELSE LoadRows(Tail(rows), sts, unk)

\* the orders in which the database may return the rows
Orders(tbl) ==
    {f \in [1..Cardinality(tbl) -> tbl] : \A i, j \in 1..Cardinality(tbl) : f[i] = f[j] => i = j}

\* lines 377-404; scanned: the rows scanned before a scan failed
LoadStatus(queryOk, rows, scanned) ==
    /\ Idle
    /\ calls < MaxCalls
    /\ calls' = calls + 1
    /\ op' = "LoadStatus"
    /\ pc' = "done"
    /\ ops' = <<"SELECT">>
    /\ LET tableName == trackingTable(TrackingTable) IN
       IF tableName = <<>> \/ ~queryOk
       THEN /\ err' = Wrap(<<"query failed">>, "Cannot query migration status")
            /\ unknowns' = <<>>
            /\ status' = status
       ELSE LET r == LoadRows(SubSeq(rows, 1, scanned), status, <<>>) IN
            /\ status' = r.status
            /\ IF scanned < Len(rows)
               THEN /\ err' = Wrap(<<"scan failed">>, "Cannot scan migration status")
                    /\ unknowns' = <<>>
               ELSE /\ err' = Nil
                    /\ unknowns' = r.unknowns
    /\ UNCHANGED <<SchemaOverride, TrackingTable, table, effects, txState, txRows,
                   txEffect, mig, class, tx, before, created, txAuto, ddlRun, lockVars>>

\* ------------------------------------------------------------ lock manager
Managers == {"A", "B"}
Threads == {"t1", "t2"}
Sessions == 1..MaxLockCalls

LockName(tableName) == <<"libschema_">> \o tableName

LockNames ==
    {LockName(trackingSchemaTable(d).table) :
        d \in {x \in TrackingTables : trackingSchemaTable(x).err = Nil}}

\* the sessions that hold advisory lock n
Holders(n) == {s \in Sessions : lockDepth[n][s] > 0}

\* the connection BeginTx takes: one of the pool, or a new one
Available ==
    {s \in Sessions : sess[s] = "pooled"} \cup
    {s \in Sessions : sess[s] = "new" /\ \A u \in Sessions : sess[u] = "new" => s <= u}

NoCall == [fn |-> "none", p |-> "A", n |-> 0]

\* the held check left out
AlreadyLockedNever(p) == FALSE

\* line 332
AlreadyLocked(p) == lockTx[p] # 0

\* line 358
NotLocked(p) == lockTx[p] = 0

\* lines 324-341: up to the GET_LOCK call, which blocks with p.lock held
LockMigrationsTable(t, p, d, beginOk) ==
    /\ tpc[t] = "idle"
    /\ lock[p] = "none"
    /\ lockCalls < MaxLockCalls
    /\ lockCalls' = lockCalls + 1
    /\ tcall' = [tcall EXCEPT ![t] = [fn |-> "Lock", p |-> p, n |-> lockCalls']]
    /\ plast' = [plast EXCEPT ![p] = "Lock"]
    /\ LET r == trackingSchemaTable(d) IN
       IF r.err # Nil
       THEN /\ tret' = [tret EXCEPT ![t] = r.err]
            /\ tops' = [tops EXCEPT ![t] = <<>>]
            /\ UNCHANGED <<lockTx, lockStr, lock, sess, tpc, ttx>>
       ELSE IF AlreadyLocked(p)
       THEN /\ tret' = [tret EXCEPT ![t] = <<"already locked">>]
            /\ tops' = [tops EXCEPT ![t] = <<>>]
            /\ UNCHANGED <<lockTx, lockStr, lock, sess, tpc, ttx>>
       ELSE IF ~beginOk
       THEN /\ tret' = [tret EXCEPT ![t] =
                            Wrap(<<"begin failed">>, "Could not start transaction")]
            /\ tops' = [tops EXCEPT ![t] = <<"BeginTx">>]
            /\ UNCHANGED <<lockTx, lockStr, lock, sess, tpc, ttx>>
       ELSE \E s \in Available :
            /\ sess' = [sess EXCEPT ![s] = "pinned"]
            /\ ttx' = [ttx EXCEPT ![t] = s]
            /\ lockStr' = [lockStr EXCEPT ![p] = LockName(r.table)]
            /\ tops' = [tops EXCEPT ![t] = <<"BeginTx", "GET_LOCK">>]
            /\ tret' = [tret EXCEPT ![t] = Nil]
            /\ tpc' = [tpc EXCEPT ![t] = "GET_LOCK"]
            /\ lock' = [lock EXCEPT ![p] = t]
            /\ UNCHANGED lockTx
    /\ UNCHANGED <<lockDepth, execVars>>

\* GET_LOCK that does not wait, its result unchecked as in line 341: the call
\* goes on whether or not the lock was granted
GetLockNoWait(t) ==
    /\ tpc[t] = "GET_LOCK"
    /\ LET p == tcall[t].p
           s == ttx[t]
           n == lockStr[p]
       IN  /\ lockDepth' = IF Holders(n) \subseteq {s}
                           THEN [lockDepth EXCEPT ![n][s] = @ + 1]
                           ELSE lockDepth
           /\ lockTx' = [lockTx EXCEPT ![p] = s]
           /\ lock' = [lock EXCEPT ![p] = "none"]
    /\ tpc' = [tpc EXCEPT ![t] = "idle"]
    /\ tret' = [tret EXCEPT ![t] = Nil]
    /\ UNCHANGED <<lockStr, sess, tcall, ttx, tops, plast, lockCalls, execVars>>

\* lines 341, 345-346: the database grants the lock (it is free, or held by
\* the asking session itself), GET_LOCK returns 1
GetLockGranted(t) ==
    /\ tpc[t] = "GET_LOCK"
    /\ LET p == tcall[t].p
           s == ttx[t]
           n == lockStr[p]
       IN  /\ Holders(n) \subseteq {s}
           /\ lockDepth' = [lockDepth EXCEPT ![n][s] = @ + 1]
           /\ lockTx' = [lockTx EXCEPT ![p] = s]
           /\ lock' = [lock EXCEPT ![p] = "none"]
    /\ tpc' = [tpc EXCEPT ![t] = "idle"]
    /\ tret' = [tret EXCEPT ![t] = Nil]
    /\ UNCHANGED <<lockStr, sess, tcall, ttx, tops, plast, lockCalls, execVars>>

\* lines 341-344: GET_LOCK fails (NULL or a driver error); the lock is not
\* taken and the transaction tx is left as it is
GetLockFailed(t) ==
    /\ tpc[t] = "GET_LOCK"
    /\ lock' = [lock EXCEPT ![tcall[t].p] = "none"]
    /\ tpc' = [tpc EXCEPT ![t] = "idle"]
    /\ tret' = [tret EXCEPT ![t] = Wrap(<<"get_lock failed">>, "Could not get lock")]
    /\ UNCHANGED <<lockTx, lockStr, sess, lockDepth, tcall, ttx, tops, plast, lockCalls,
                   execVars>>

\* what a RELEASE_LOCK call can do: release and succeed, fail with the
\* session and its lock left alive, fail because the session is gone
ReleaseOutcomes == {"released", "failed", "lost"}

\* the cleanup done only when RELEASE_LOCK succeeded
UnlockDeferredOnSuccess(p, s, outcome) ==
    IF outcome = "released"
    THEN /\ sess' = [sess EXCEPT ![s] = "pooled"]
         /\ lockTx' = [lockTx EXCEPT ![p] = 0]
    ELSE /\ sess' = [sess EXCEPT ![s] = IF outcome = "lost" THEN "closed" ELSE @]
         /\ lockTx' = lockTx

\* the deferred function of lines 361-364
UnlockDeferred(p, s, outcome) ==
    /\ sess' = [sess EXCEPT ![s] = IF outcome = "lost" THEN "closed" ELSE "pooled"]
    /\ lockTx' = [lockTx EXCEPT ![p] = 0]

\* lines 354-370
UnlockMigrationsTable(t, p, outcome) ==
    /\ tpc[t] = "idle"
    /\ lock[p] = "none"
    /\ lockCalls < MaxLockCalls
    /\ lockCalls' = lockCalls + 1
    /\ tcall' = [tcall EXCEPT ![t] = [fn |-> "Unlock", p |-> p, n |-> lockCalls']]
    /\ plast' = [plast EXCEPT ![p] = IF NotLocked(p) THEN "Unlock not held" ELSE "Unlock held"]
    /\ IF NotLocked(p)
       THEN /\ tret' = [tret EXCEPT ![t] = <<"not locked">>]
            /\ tops' = [tops EXCEPT ![t] = <<>>]
            /\ UNCHANGED <<lockTx, sess, lockDepth>>
       ELSE LET s == lockTx[p]
                n == lockStr[p]
            IN  /\ tops' = [tops EXCEPT ![t] = <<"RELEASE_LOCK", "Rollback">>]
                /\ lockDepth' =
                      CASE outcome = "released" ->
                             [lockDepth EXCEPT ![n][s] = IF @ > 0 THEN @ - 1 ELSE 0]
                        [] outcome = "failed" -> lockDepth
                        [] outcome = "lost" ->
                             [m \in LockNames |-> [lockDepth[m] EXCEPT ![s] = 0]]
                /\ tret' = [tret EXCEPT ![t] =
                               IF outcome = "released" THEN Nil
                               ELSE Wrap(<<"release failed">>,
                                         "Could not release explicit lock")]
                /\ UnlockDeferred(p, s, outcome)
    /\ UNCHANGED <<lockStr, lock, tpc, ttx, execVars>>

\* --------------------------------------------------------- specifications
ExecInit ==
    /\ effects = {}
    /\ txState = NoTx
    /\ txRows = [t \in TxIds |-> <<>>]
    /\ txEffect = [t \in TxIds |-> FALSE]
    /\ txAuto = [t \in TxIds |-> FALSE]
    /\ ddlRun = {}
    /\ pc = "idle"
    /\ op = "none"
    /\ mig = "m1"
    /\ class = "none"
    /\ tx = 0
    /\ err = Nil
    /\ ops = <<>>
    /\ status = [m \in Migrations |-> "unset"]
    /\ unknowns = <<>>
    /\ before = [status |-> [m \in Migrations |-> "unset"], table |-> {}]
    /\ created = {}
    /\ calls = 0

LockManagerInit ==
    /\ lockTx = [p \in Managers |-> 0]
    /\ lockStr = [p \in Managers |-> <<>>]
    /\ lock = [p \in Managers |-> "none"]
    /\ sess = [s \in Sessions |-> "new"]
    /\ lockDepth = [n \in LockNames |-> [s \in Sessions |-> 0]]
    /\ tpc = [t \in Threads |-> "idle"]
    /\ tcall = [t \in Threads |-> NoCall]
    /\ ttx = [t \in Threads |-> 0]
    /\ tret = [t \in Threads |-> Nil]
    /\ tops = [t \in Threads |-> <<>>]
    /\ plast = [p \in Managers |-> "none"]
    /\ lockCalls = 0

\* the executor and the status store, called one operation at a time
Init ==
    /\ SchemaOverride \in SchemaOverrides
    /\ TrackingTable \in TrackingTables
    /\ table \in InitialTables
    /\ ExecInit
    /\ LockManagerInit

Next ==
    \/ DoOneMigration
    \/ \E schemaOk, tableOk \in BOOLEAN : CreateSchemaTableIfNotExists(schemaOk, tableOk)
    \/ \E queryOk \in BOOLEAN, rows \in Orders(table) :
          \E scanned \in 0..Len(rows) : LoadStatus(queryOk, rows, scanned)

Spec == Init /\ [][Next]_vars

\* the lock managers, called from concurrent threads
LockInit ==
    /\ SchemaOverride = <<>>
    /\ TrackingTable = <<"t">>
    /\ table = {}
    /\ ExecInit
    /\ LockManagerInit

LockNext ==
    \/ \E t \in Threads, p \in Managers, d \in TrackingTables, beginOk \in BOOLEAN :
          LockMigrationsTable(t, p, d, beginOk)
    \/ \E t \in Threads : GetLockGranted(t)
    \/ \E t \in Threads : GetLockFailed(t)
    \/ \E t \in Threads, p \in Managers, outcome \in ReleaseOutcomes :
          UnlockMigrationsTable(t, p, outcome)

LockSpec == LockInit /\ [][LockNext]_vars

\* the characters tracking-table names are made of in NameSpec: letters, a
\* digit, the underscore, the dot and a character no identifier may hold
NameChars == {"a", "Z", "1", "_", ".", ";"}

\* every string of at most MaxNameLen of these characters
Names == UNION {[1..n -> NameChars] : n \in 0..MaxNameLen}

\* the tracking-table name validator, on any configured name
NameInit ==
    /\ SchemaOverride = <<>>
    /\ TrackingTable \in Names
    /\ table = {}
    /\ ExecInit
    /\ LockManagerInit

NameNext ==
    \E schemaOk, tableOk \in BOOLEAN : CreateSchemaTableIfNotExists(schemaOk, tableOk)

NameSpec == NameInit /\ [][NameNext]_vars

\* ------------------------------------------------------------ properties
Range(q) == {q[i] : i \in 1..Len(q)}
Count(q, x) == Cardinality({i \in 1..Len(q) : q[i] = x})

\* DoOneMigration has returned
Returned == op = "DoOneMigration" /\ pc = "done"

\* the generator or the action of the migration was reached in this call
Reached == op = "DoOneMigration" /\ Range(ops) \cap {"script", "computed"} # {}

\* the migration itself failed: the fallback transaction was asked for
MigrationFailed == op = "DoOneMigration" /\ Count(ops, "BeginTx") = 2

\* the tracking rows of the migration of the call
RowsOf(m) == {r \in table : r.library = Library /\ r.migration = m}

\* the status of this call could not be recorded
FallbackBeginFailed == MigrationFailed /\ txState[2] = "none"
SaveFailed == op = "DoOneMigration" /\ "REPLACE" \in Range(ops) /\ txRows[tx] = <<>>

\* C1: when the migration itself fails, the fallback transaction opens and
\* the status write succeeds, then after Run returns the migration's own
\* transaction is rolled back, Run returns the failure, and the committed
\* tracking table holds the row (library, name, done=false, error text)
C1_FailureRecorded ==
    (Returned /\ MigrationFailed /\ txState[2] # "none" /\ txRows[2] # <<>>)
        => /\ txState[1] = "rolledback"
           /\ err # Nil
           /\ Row(mig, FALSE, err) \in table

\* the status of the attempt was written and the call ended as the
\* migration did: nothing but the migration itself failed
Recorded ==
    /\ Returned
    /\ "REPLACE" \in Range(ops)
    /\ txRows[tx] # <<>>
    /\ err = Nil \/ MigrationFailed

\* C2: after a completed DoOneMigration call whose status write succeeded,
\* successful or failed, the committed tracking table holds exactly one row
\* for (library, migration), and its done flag and error text are those of
\* the attempt just made
C2_OneRowOfLastAttempt ==
    Recorded
        => /\ Cardinality(RowsOf(mig)) = 1
           /\ \A r \in RowsOf(mig) :
                 /\ r.done = (err = Nil)
                 /\ r.error = err

\* C3: the generated script is passed to the database iff it is classified
\* Safe, or NonIdempotentDDL with a skip-if condition on the migration; a
\* rejected script is never executed and Run returns an error for it
C3_ScriptPolicy ==
    (op = "DoOneMigration" /\ class # "none")
        => LET allowed == \/ class = "Safe"
                          \/ class = "NonIdempotentDDL" /\ HasSkipIf(mig)
           IN  /\ ("Exec" \in Range(ops)) <=> allowed
               /\ (~allowed /\ pc = "done") => err # Nil

C3_Witness ==
    /\ Returned
    /\ class = "NonIdempotentDDL"
    /\ ~HasSkipIf(mig)
    /\ "Exec" \notin Range(ops)
    /\ err # Nil

\* C8 as claimed: every DoOneMigration invocation performs exactly one
\* tracking-table row write, whatever its outcome
C8_ExactlyOneWrite == Returned => Count(ops, "REPLACE") = 1

\* C8 as amended: an invocation performs exactly one row write when the
\* migration's generator or action was reached and, if the migration then
\* failed, the fallback transaction could be begun; it performs none when
\* beginning the first transaction, the namespace override or beginning the
\* fallback transaction failed
C8_WritesAmended ==
    Returned
        => Count(ops, "REPLACE") =
              IF Reached /\ (MigrationFailed => txState[2] # "none") THEN 1 ELSE 0

C8_Witness ==
    /\ Returned
    /\ MigrationFailed
    /\ txState[2] = "open" \/ txState[2] = "rolledback"
    /\ Count(ops, "REPLACE") = 1

\* C9: when the status cannot be recorded (the fallback transaction cannot
\* be opened, or the saveStatus write fails), Run returns an error, the
\* in-memory status is left as it was, no transaction of the call is
\* committed, and when the migration had failed too the error carries both
\* the migration error and the status/transaction error
C9_StatusFailureFatal ==
    (Returned /\ (FallbackBeginFailed \/ SaveFailed))
        => /\ err # Nil
           /\ status = before.status
           /\ \A t \in TxIds : txState[t] # "committed"
           /\ table = before.table
           /\ MigrationFailed
                 => /\ "Problem with migration" \in Range(err)
                    /\ Range(err) \cap {"exec failed", "action failed",
                            "Migration combines DDL and data manipulation",
                            "Unconditional migration has non-idempotent DDL"} # {}
                    /\ Range(err) \cap {"begin failed", "replace failed"} # {}

\* the script ran without error, the status write failed
C9_Witness ==
    /\ Returned
    /\ SaveFailed
    /\ ~MigrationFailed
    /\ "Exec" \in Range(ops)
    /\ txEffect[1]

\* the configuration the operation reads is invalid
ConfigInvalid ==
    \/ trackingSchemaTable(TrackingTable).err # Nil
    \/ op = "DoOneMigration" /\ SchemaOverride # <<>> /\ ~simpleIdentifierRE(SchemaOverride)

\* C10: with an invalid configuration DoOneMigration, LoadStatus and
\* CreateSchemaTableIfNotExists return the error before any database I/O:
\* they begin no transaction and issue no statement
C10_NoIOOnConfigError ==
    (op # "none" /\ pc = "done" /\ ConfigInvalid) => (err # Nil /\ ops = <<>>)

\* a call of thread t starts in this step
Starts(t, fn, p) ==
    /\ lockCalls' = lockCalls + 1
    /\ tcall'[t].n = lockCalls'
    /\ tcall'[t].fn = fn
    /\ tcall'[t].p = p

\* C4: of the lock managers whose lock name is the same, at most one is in
\* the held state, and at most one database session holds an advisory lock
C4_MutualExclusion ==
    /\ \A a, b \in Managers :
          (a # b /\ lockTx[a] # 0 /\ lockTx[b] # 0) => lockStr[a] # lockStr[b]
    /\ \A p \in Managers : lockTx[p] # 0 => Holders(lockStr[p]) = {lockTx[p]}
    /\ \A n \in LockNames : Cardinality(Holders(n)) <= 1

\* A holds the lock and a call on B is blocked on the same lock name
C4_Witness ==
    /\ lockTx["A"] # 0
    /\ \E t \in Threads :
          /\ tpc[t] = "GET_LOCK"
          /\ tcall[t].p = "B"
          /\ lockStr["B"] = lockStr["A"]

\* C5: a LockMigrationsTable call blocked in GET_LOCK stays blocked while
\* a manager holds that lock name, and once the holder's
\* UnlockMigrationsTable has returned (no manager holds the name any more)
\* the database can grant the lock to the blocked call
C5_HandOver ==
    \A t \in Threads :
        tpc[t] = "GET_LOCK"
            => LET n == lockStr[tcall[t].p] IN
               (\E a \in Managers : lockTx[a] # 0 /\ lockStr[a] = n)
                   <=> ~(Holders(n) \subseteq {ttx[t]})

\* C6: LockMigrationsTable on an instance whose lock is held returns an
\* error, opens no session, issues no GET_LOCK and leaves lockTx and lockStr
\* unchanged; UnlockMigrationsTable on an instance whose lock is not held
\* returns an error and issues no database call
C6_LockStateErrors ==
    [][\A t \in Threads, p \in Managers :
          /\ (Starts(t, "Lock", p) /\ lockTx[p] # 0)
                => /\ tret'[t] # Nil
                   /\ tops'[t] = <<>>
                   /\ tpc'[t] = "idle"
                   /\ sess' = sess
                   /\ lockDepth' = lockDepth
                   /\ lockTx' = lockTx
                   /\ lockStr' = lockStr
          /\ (Starts(t, "Unlock", p) /\ lockTx[p] = 0)
                => /\ tret'[t] # Nil
                   /\ tops'[t] = <<>>
                   /\ sess' = sess
                   /\ lockDepth' = lockDepth
                   /\ lockTx' = lockTx]_vars

\* both errors were returned, the Lock one while another call on the same
\* instance had taken the lock
C6_Witness ==
    \E t, u \in Threads :
        /\ tcall[t].fn = "Lock" /\ tret[t] = <<"already locked">>
        /\ tcall[u].fn = "Unlock" /\ tret[u] = <<"not locked">>

\* C7: UnlockMigrationsTable on an instance whose lock is held ends the
\* pinned session's transaction and leaves lockTx nil, whatever RELEASE_LOCK
\* returned; the next LockMigrationsTable on the instance is not rejected as
\* already locked
C7_UnlockAlwaysClears ==
    [][\A t \in Threads, p \in Managers :
          /\ (Starts(t, "Unlock", p) /\ lockTx[p] # 0)
                => /\ lockTx'[p] = 0
                   /\ sess'[lockTx[p]] \in {"pooled", "closed"}
          /\ (Starts(t, "Lock", p) /\ plast[p] = "Unlock held")
                => tret'[t] # <<"already locked">>]_vars

\* RELEASE_LOCK failed, and a later Lock call on the instance went on to
\* open its session
C7_Witness ==
    \E t, u \in Threads :
        /\ tcall[u].fn = "Unlock"
        /\ tret[u] # Nil
        /\ tops[u] # <<>>
        /\ tcall[t].fn = "Lock"
        /\ tcall[t].p = tcall[u].p
        /\ tcall[t].n > tcall[u].n
        /\ Len(tops[t]) = 2

\* ------------------------------------------------- crash inside a migration
\* DoOneMigration has begun and neither returned nor died
InCall == op = "DoOneMigration" /\ pc \in {"begun", "ready", "ran", "recovered", "saved"}

LoadStatusCall == op' = "LoadStatus" /\ calls' = calls + 1

\* the rows of the table that match no known migration
UnknownRows == {r \in table : ~(r.library = Library /\ r.migration \in Migrations)}

\* C12: LoadStatus fails only when the query or a scan fails, whatever the
\* table holds; when it returns no error, the returned list holds exactly the
\* (library, migration) names of the done=true rows that match no known
\* migration, each once; every known migration that has a row has its
\* in-memory status set from the row's done value; every known migration
\* without a row keeps its status (rows of unknown migrations change nothing)
C12_LoadStatus ==
    [][LoadStatusCall =>
          /\ err' # Nil => Range(err') \cap {"query failed", "scan failed"} # {}
          /\ err' = Nil =>
                /\ Range(unknowns') =
                      {[Library |-> r.library, Name |-> r.migration] :
                          r \in {x \in UnknownRows : x.done}}
                /\ Len(unknowns') = Cardinality({x \in UnknownRows : x.done})
                /\ \A m \in Migrations :
                      IF RowsOf(m) = {}
                      THEN status'[m] = status[m]
                      ELSE \A r \in RowsOf(m) :
                              status'[m] = IF r.done THEN "done" ELSE "notdone"]_vars

\* LoadStatus returned the one finished unknown migration of a table that
\* also holds a success of m2, a failure of m1 and an unfinished row of
\* another library
C12_Witness ==
    /\ op = "LoadStatus"
    /\ err = Nil
    /\ unknowns = <<[Library |-> Library, Name |-> "old"]>>
    /\ status = [m1 |-> "notdone", m2 |-> "done", m3 |-> "unset"]
    /\ Cardinality(table) = 4

\* ------------------------------------------------------ tracking-table name
\* a letter followed by letters, digits or underscores
IsIdentifier(s) ==
    /\ s # <<>>
    /\ Head(s) \in Letter
    /\ Range(Tail(s)) \subseteq Letter \cup Digit \cup {"_"}

\* the positions of a dot that has an identifier on either side
QualifiedAt(s) ==
    {k \in 1..Len(s) : /\ s[k] = "."
                       /\ IsIdentifier(SubSeq(s, 1, k - 1))
                       /\ IsIdentifier(SubSeq(s, k + 1, Len(s)))}

\* C13: trackingSchemaTable accepts a name iff it is one simple identifier or
\* two simple identifiers joined by one dot; for "table" it returns no schema
\* and the name, for "schema.table" the schema and the whole name; for every
\* other string an error and empty results. CreateSchemaTableIfNotExists
\* creates what it returned, and nothing for a rejected name
C13_TrackingTableName ==
    LET r == trackingSchemaTable(TrackingTable) IN
    /\ r.err = Nil <=> (IsIdentifier(TrackingTable) \/ QualifiedAt(TrackingTable) # {})
    /\ IsIdentifier(TrackingTable) => r.schema = <<>> /\ r.table = TrackingTable
    /\ \A k \in QualifiedAt(TrackingTable) :
          r.schema = SubSeq(TrackingTable, 1, k - 1) /\ r.table = TrackingTable
    /\ r.err # Nil => r.schema = <<>> /\ r.table = <<>>
    /\ (op = "CreateSchemaTableIfNotExists" /\ pc = "done") =>
          /\ created \subseteq {r.schema, r.table} \ {<<>>}
          /\ err = Nil => created = {r.schema, r.table} \ {<<>>}
          /\ r.err # Nil => err = r.err /\ ops = <<>>

\* a schema-qualified name was accepted and its schema and table created
C13_Witness ==
    /\ op = "CreateSchemaTableIfNotExists"
    /\ err = Nil
    /\ TrackingTable = <<"a", "_", ".", "Z", "1">>
    /\ created = {<<"a", "_">>, TrackingTable}

\* a name of three parts was rejected
C13_Rejected ==
    /\ op = "CreateSchemaTableIfNotExists"
    /\ TrackingTable = <<"a", ".", "a", ".", "a">>
    /\ err = <<"tracking table is not valid">>

\* ------------------------------------------------- transactions of one call
\* the statements of the call so far; lost when the process died
CallLog == IF op = "DoOneMigration" /\ pc # "crashed" THEN ops ELSE <<>>

\* C14: one DoOneMigration call asks for at most two transactions; the
\* second is asked for only directly after the rollback of the first, after
\* the script generator or the action was reached and left an error
C14_AtMostTwoTransactions ==
    /\ Count(CallLog, "BeginTx") <= 2
    /\ \A i \in 2..Len(CallLog) :
          CallLog[i] = "BeginTx" =>
              /\ CallLog[i - 1] = "Rollback"
              /\ Range(SubSeq(CallLog, 1, i - 1)) \cap {"script", "computed"} # {}
              /\ txState[1] = "rolledback"
              /\ err # Nil

\* a call that was rejected by the policy wrote its status in the second
\* transaction and returned
C14_Witness ==
    /\ Returned
    /\ ops = <<"BeginTx", "script", "Rollback", "BeginTx", "REPLACE", "Rollback">>
    /\ txState = <<"rolledback", "rolledback">>

\* ------------------------------------------------- record before execution
\* C15: the driver records in the tracking table that it is about to attempt
\* a migration before it executes it: in every call, a tracking-table write
\* precedes the execution of the migration's SQL or action
C15_WriteBeforeExecution ==
    \A i \in 1..Len(CallLog) :
        CallLog[i] \in {"Exec", "computed"}
            => \E j \in 1..(i - 1) : CallLog[j] = "REPLACE"

\* ------------------------------------------------------- in-memory status
\* C16: DoOneMigration sets the in-memory status of its migration to done if
\* and only if it returns a nil error; a call that returns an error, at
\* whatever step it failed, leaves every in-memory status as it was, and
\* nothing is changed before the call returns
C16_DoneIffNilError ==
    /\ InCall => status = before.status
    /\ Returned =>
          /\ err = Nil => status = [before.status EXCEPT ![mig] = "done"]
          /\ err # Nil => status = before.status

\* the commit failed after the migration ran and its status was saved: the
\* migration is not marked done
C16_Witness ==
    /\ Returned
    /\ ops = <<"BeginTx", "computed", "REPLACE", "Commit">>
    /\ err # Nil
    /\ status[mig] # "done"

\* ------------------------------------------------------- namespace override
\* the statements that touch the migration's content or its status
MigrationSteps == {"script", "computed", "Exec", "REPLACE"}

\* C17: with a namespace override configured, USE is the first statement of
\* the migration's transaction and comes before the script generator or the
\* action; an invalid override is never sent to the database; if the
\* override is invalid or USE fails, DoOneMigration returns an error with
\* the transaction rolled back, and the generator or action was not invoked
\* and no migration SQL was executed
C17_NamespaceFirst ==
    SchemaOverride # <<>> =>
        /\ \A i \in 1..Len(CallLog) :
              /\ CallLog[i] \in MigrationSteps => i > 2 /\ CallLog[2] = "USE"
              /\ CallLog[i] = "USE" => i = 2 /\ simpleIdentifierRE(SchemaOverride)
        /\ ~simpleIdentifierRE(SchemaOverride) => Range(CallLog) \cap MigrationSteps = {}
        /\ (/\ Returned
            /\ txState[1] # "none"
            /\ ~simpleIdentifierRE(SchemaOverride) \/ "use failed" \in Range(err))
              => /\ err # Nil
                 /\ txState = <<"rolledback", "none">>
                 /\ Range(ops) \cap MigrationSteps = {}
                 /\ table = before.table
                 /\ status = before.status

\* USE failed on a valid override and the call returned
C17_Witness ==
    /\ Returned
    /\ SchemaOverride = <<"d", "b">>
    /\ ops = <<"BeginTx", "USE", "Rollback">>
    /\ "use failed" \in Range(err)

\* ------------------------------------------------ effects and their record
\* C18: for a migration that ran no auto-committing DDL, in every state its
\* effects are committed if and only if a committed tracking row with
\* done=true exists for it; when DoOneMigration returns an error other than
\* a commit failure, the call committed none of the migration's effects
C18_EffectIffRecord ==
    /\ \A m \in Migrations \ ddlRun : m \in effects <=> Row(m, TRUE, Nil) \in table
    /\ (Returned /\ err # Nil /\ "commit failed" \notin Range(err) /\ mig \notin ddlRun)
          => (mig \in effects <=> Row(mig, TRUE, Nil) \in before.table)

\* a migration without DDL failed on a retry after an earlier call had
\* committed its effects and its done row
C18_Witness ==
    /\ Returned
    /\ err # Nil
    /\ "Exec" \in Range(ops)
    /\ mig \in effects \ ddlRun
    /\ Row(mig, TRUE, Nil) \in table

\* ---------------------------------------------------- failed lock acquire
\* C19: when LockMigrationsTable returns an error, no session opened by the
\* call remains open: the transaction begun to pin the connection has been
\* ended, and the session holds no advisory lock
C19_FailedLockLeaksNothing ==
    \A t \in Threads :
        (/\ tcall[t].fn = "Lock"
         /\ tpc[t] = "idle"
         /\ tret[t] # Nil
         /\ tops[t] = <<"BeginTx", "GET_LOCK">>)
            => /\ sess[ttx[t]] # "pinned"
               /\ \A n \in LockNames : lockDepth[n][ttx[t]] = 0

\* ------------------------------------------------- every transaction ended
\* C20: when DoOneMigration returns, every transaction it began has been
\* ended, by commit or by rollback, none is left open; a transaction is
\* committed only on the path where no error had been raised, and then it is
\* the last statement of the call and the only commit
C20_TransactionsEnded ==
    /\ Returned =>
          /\ \A t \in TxIds : txState[t] \in {"none", "committed", "rolledback"}
          /\ txState[1] = "none" => txState[2] = "none" /\ ops = <<"BeginTx">>
          /\ \A t \in TxIds : txState[t] = "committed" => err = Nil /\ t = tx
    /\ \A i \in 1..Len(CallLog) :
          CallLog[i] = "Commit" =>
              /\ i = Len(CallLog)
              /\ Returned
              /\ Range(CallLog) \cap {"Rollback"} = {}
              /\ Count(CallLog, "BeginTx") = 1

\* a failed migration: both the first and the fallback transaction were
\* rolled back
C20_Witness ==
    /\ Returned
    /\ txState = <<"rolledback", "rolledback">>
    /\ "Exec" \in Range(ops)
    /\ "REPLACE" \in Range(ops)

====
